---- MODULE Spec2Model ----
(***************************************************************************)
(* Dynamic workflow engine of Assistant_support_LangGraph                  *)
(* (docker-deploy/app/graph.py and the /api/graph/run endpoint of          *)
(* docker-deploy/app/main.py).                                             *)
(*                                                                         *)
(* A run is either a request to the run endpoint (caller = "run"), which   *)
(* resolves the workflow request into a plan and invokes the compiled      *)
(* graph on a freshly built state, or a direct invocation of the exported  *)
(* graph on a state chosen by the caller (caller = "graph").               *)
(***************************************************************************)
EXTENDS Integers, Sequences, FiniteSets, TLC

VARIABLES
    caller,     \* "run": POST /api/graph/run, "graph": dynamic_graph.ainvoke(state)
    request,    \* the body of the run request
    pc,         \* position of the run
    state,      \* the GraphState of the run: a mapping from keys to values
    initial,    \* the state the graph was invoked with
    cur,        \* the node the graph is about to execute
    invoked,    \* the handler calls so far: index, node name and outcome
    response,   \* the endpoint's answer / the value returned by ainvoke
    call,       \* the last call of a tracked node, as it is when it returns
    tables      \* the module-level objects of graph.py

vars == <<caller, request, pc, state, initial, cur, invoked, response,
          call, tables>>

(***************************************************************************)
(* Bounds of the model.                                                    *)
(***************************************************************************)
MaxListLen == 3        \* longest explicit list request / caller-given plan
MaxStartIndex == 4     \* largest current_step_index a direct caller passes

(***************************************************************************)
(* Python values.                                                          *)
(***************************************************************************)
None == "<None>"
END == "__end__"

\* bool(v) for an Optional[str]
TruthyStr(v) == v # None /\ v # ""

\* dict.get(key, default)
Get(d, key, default) == IF key \in DOMAIN d THEN d[key] ELSE default

(***************************************************************************)
(* Configuration tables.                                                   *)
(***************************************************************************)
DEFAULT_FLOW ==
    <<"reconstruct", "persist", "email", "analyze", "suggest",
      "save_analysis", "email">>

\* the keys of NODE_FUNCTIONS
NODE_FUNCTIONS ==
    {"reconstruct", "persist", "email", "analyze", "suggest", "save_analysis"}

\* a preset table whose no_email was copied from full and kept the email
PRESET_WORKFLOWS_NoEmailKeepsEmail ==
    [full |-> <<"reconstruct", "persist", "email", "analyze", "suggest",
                "save_analysis">>,
     quick |-> <<"reconstruct", "persist">>,
     analysis_only |-> <<"analyze", "suggest", "save_analysis">>,
     reconstruct_only |-> <<"reconstruct">>,
     persist_only |-> <<"persist">>,
     email_only |-> <<"email">>,
     no_email |-> <<"reconstruct", "persist", "email", "analyze", "suggest",
                    "save_analysis">>,
     analysis_and_suggest |-> <<"analyze", "suggest">>,
     with_email |-> <<"reconstruct", "persist", "email">>]

PRESET_WORKFLOWS ==
    [full |-> <<"reconstruct", "persist", "email", "analyze", "suggest",
                "save_analysis">>,
     quick |-> <<"reconstruct", "persist">>,
     analysis_only |-> <<"analyze", "suggest", "save_analysis">>,
     reconstruct_only |-> <<"reconstruct">>,
     persist_only |-> <<"persist">>,
     email_only |-> <<"email">>,
     no_email |-> <<"reconstruct", "persist", "analyze", "suggest",
                    "save_analysis">>,
     analysis_and_suggest |-> <<"analyze", "suggest">>,
     with_email |-> <<"reconstruct", "persist", "email">>]

(***************************************************************************)
(* Workflow requests: None, a string, a list of strings, or a value of     *)
(* another type (which is truthy or falsy).                                *)
(***************************************************************************)
WNone == [type |-> "none", name |-> "", list |-> <<>>, truthy |-> FALSE]
WStr(s) == [type |-> "str", name |-> s, list |-> <<>>, truthy |-> s # ""]
WList(l) == [type |-> "list", name |-> "", list |-> l, truthy |-> l # <<>>]
WOther(b) == [type |-> "other", name |-> "", list |-> <<>>, truthy |-> b]

\* names a caller may write that are not registered steps
UnknownNames == {"bogus"}

\* the step names explicit lists are drawn from
ListNames == {"reconstruct", "email", "analyze"} \cup UnknownNames

SeqsUpTo(S, n) == UNION {[1..k -> S] : k \in 0..n}

StringRequests ==
    DOMAIN PRESET_WORKFLOWS \cup NODE_FUNCTIONS \cup UnknownNames \cup {""}

WorkflowRequests ==
    {WNone} \cup {WStr(s) : s \in StringRequests}
            \cup {WList(l) : l \in SeqsUpTo(ListNames, MaxListLen)}
            \cup {WOther(b) : b \in BOOLEAN}

(***************************************************************************)
(* Plan resolver.                                                          *)
(***************************************************************************)
RECURSIVE FilterSteps_StopsAtUnknown(_)
\* a validation loop that gives up at the first unregistered name
FilterSteps_StopsAtUnknown(l) ==
    IF l = <<>> THEN <<>>
    ELSE IF Head(l) \in NODE_FUNCTIONS
         THEN <<Head(l)>> \o FilterSteps_StopsAtUnknown(Tail(l))
         ELSE <<>>

RECURSIVE FilterSteps(_)
\* the validation loop of prepare_workflow_steps over a list request
FilterSteps(l) ==
    IF l = <<>> THEN <<>>
    ELSE IF Head(l) \in NODE_FUNCTIONS
         THEN <<Head(l)>> \o FilterSteps(Tail(l))
         ELSE FilterSteps(Tail(l))

\* prepare_workflow_steps testing "is None" where the code tests "not"
prepare_workflow_steps_OnlyNone(w) ==
    IF w.type = "none" THEN DEFAULT_FLOW
    ELSE IF w.type = "str"
         THEN IF w.name \in DOMAIN PRESET_WORKFLOWS
              THEN PRESET_WORKFLOWS[w.name]
              ELSE <<w.name>>
    ELSE IF w.type = "list" THEN FilterSteps(w.list)
    ELSE DEFAULT_FLOW

prepare_workflow_steps(w) ==
    IF ~w.truthy THEN DEFAULT_FLOW
    ELSE IF w.type = "str"
         THEN IF w.name \in DOMAIN PRESET_WORKFLOWS
              THEN PRESET_WORKFLOWS[w.name]
              ELSE <<w.name>>
    ELSE IF w.type = "list" THEN FilterSteps(w.list)
    ELSE DEFAULT_FLOW

(***************************************************************************)
(* Router.                                                                 *)
(***************************************************************************)
\* get_entry_point clamping an index beyond the plan to the last step
get_entry_point_Clamped(s) ==
    LET steps == Get(s, "steps", DEFAULT_FLOW)
        current_index == Get(s, "current_step_index", 0)
    IN  IF steps = <<>> THEN DEFAULT_FLOW[1]
        ELSE IF current_index < Len(steps) THEN steps[current_index + 1]
        ELSE steps[Len(steps)]

\* get_entry_point that always starts at the head of the plan
get_entry_point_AlwaysFirst(s) ==
    LET steps == Get(s, "steps", DEFAULT_FLOW)
    IN  IF steps = <<>> THEN DEFAULT_FLOW[1]
        ELSE steps[1]

get_entry_point(s) ==
    LET steps == Get(s, "steps", DEFAULT_FLOW)
        current_index == Get(s, "current_step_index", 0)
    IN  IF steps = <<>> THEN DEFAULT_FLOW[1]
        ELSE IF current_index < Len(steps) THEN steps[current_index + 1]
        ELSE steps[1]

\* route_to_next_step advancing the index itself, although the wrapper
\* already did (the defect the comment in the function warns against)
route_to_next_step_Increments(s) ==
    LET steps == Get(s, "steps", DEFAULT_FLOW)
        current_index == Get(s, "current_step_index", 0) + 1
    IN  IF Get(s, "skip_remaining", FALSE) THEN END
        ELSE IF TruthyStr(Get(s, "error", None)) THEN END
        ELSE IF current_index >= Len(steps) THEN END
        ELSE steps[current_index + 1]

\* route_to_next_step without the check of the error field
route_to_next_step_IgnoresError(s) ==
    LET steps == Get(s, "steps", DEFAULT_FLOW)
        current_index == Get(s, "current_step_index", 0)
    IN  IF Get(s, "skip_remaining", FALSE) THEN END
        ELSE IF current_index >= Len(steps) THEN END
        ELSE steps[current_index + 1]

\* route_to_next_step reading the plan one position too early, so that the
\* step that has just run is run again
route_to_next_step_RepeatsLast(s) ==
    LET steps == Get(s, "steps", DEFAULT_FLOW)
        current_index == Get(s, "current_step_index", 0)
    IN  IF Get(s, "skip_remaining", FALSE) THEN END
        ELSE IF TruthyStr(Get(s, "error", None)) THEN END
        ELSE IF current_index >= Len(steps) THEN END
        ELSE steps[current_index]

\* route_to_next_step that, with the plan exhausted, goes round to the first
\* step once more before it terminates
route_to_next_step_OneMore(s) ==
    LET steps == Get(s, "steps", DEFAULT_FLOW)
        current_index == Get(s, "current_step_index", 0)
    IN  IF Get(s, "skip_remaining", FALSE) THEN END
        ELSE IF TruthyStr(Get(s, "error", None)) THEN END
        ELSE IF current_index > Len(steps) THEN END
        ELSE IF current_index = Len(steps) THEN steps[1]
        ELSE steps[current_index + 1]

\* route_to_next_step following the canonical order of the graph's nodes
\* instead of the plan held in the state
route_to_next_step_DefaultOrder(s) ==
    LET steps == DEFAULT_FLOW
        current_index == Get(s, "current_step_index", 0)
    IN  IF Get(s, "skip_remaining", FALSE) THEN END
        ELSE IF TruthyStr(Get(s, "error", None)) THEN END
        ELSE IF current_index >= Len(steps) THEN END
        ELSE steps[current_index + 1]

\* route_to_next_step with the exhaustion check alone: no stop on
\* skip_remaining or error
route_to_next_step_NeverStops(s) ==
    LET steps == Get(s, "steps", DEFAULT_FLOW)
        current_index == Get(s, "current_step_index", 0)
    IN  IF current_index >= Len(steps) THEN END
        ELSE steps[current_index + 1]

\* route_to_next_step reading an empty steps list as the default plan
\* (steps = state.get("steps") or DEFAULT_FLOW)
route_to_next_step_EmptyIsDefault(s) ==
    LET given == Get(s, "steps", DEFAULT_FLOW)
        steps == IF given = <<>> THEN DEFAULT_FLOW ELSE given
        current_index == Get(s, "current_step_index", 0)
    IN  IF Get(s, "skip_remaining", FALSE) THEN END
        ELSE IF TruthyStr(Get(s, "error", None)) THEN END
        ELSE IF current_index >= Len(steps) THEN END
        ELSE steps[current_index + 1]

route_to_next_step(s) ==
    LET steps == Get(s, "steps", DEFAULT_FLOW)
        current_index == Get(s, "current_step_index", 0)
    IN  IF Get(s, "skip_remaining", FALSE) THEN END
        ELSE IF TruthyStr(Get(s, "error", None)) THEN END
        ELSE IF current_index >= Len(steps) THEN END
        ELSE steps[current_index + 1]

(***************************************************************************)
(* Step handlers.  A handler returns a partial update, raises, or returns  *)
(* a value that is not a mapping.  What it does depends on collaborators   *)
(* outside the engine, so it is a choice among the handler's outcomes.     *)
(***************************************************************************)
EmptyDelta == [k \in {} |-> None]

Returns(upd) == [kind |-> "return", upd |-> upd, msg |-> ""]
Raises(msg) == [kind |-> "raise", upd |-> EmptyDelta, msg |-> msg]
NonMapping == [kind |-> "nonmap", upd |-> EmptyDelta, msg |-> ""]

conversation_reconstruction_node(s) ==
    {Returns([transcript |-> "hello"]),
     Raises("Input non valido per la ricostruzione")}

persistence_node(s) ==
    {Returns([persistence_result |-> "SKIPPED"]),
     Returns([persistence_result |-> "OK:1"]),
     Raises("persistence failed")}

email_node(s) ==
    {Returns([email_result |-> "SKIPPED_NO_SCOPE"]),
     Returns([email_result |-> "TIMEOUT"]),
     Raises("email failed")}

analysis_node(s) ==
    IF ~TruthyStr(Get(s, "transcript", None))
    THEN {Raises("La trascrizione non e' presente nello stato")}
    ELSE {Returns([error |-> "MISSING_KNOWLEDGE_BASE_FILES",
                   details |-> "Nessun file di knowledge base",
                   final_status |-> "ERROR"]),
          Returns([full_analysis |-> "analysis"]),
          Raises("analysis failed")}

suggestions_node(s) ==
    {Returns([suggestions |-> "suggestions", action_plan |-> "plan"]),
     Raises("suggestions failed")}

save_analysis_node(s) ==
    {Returns([analysis_saved |-> FALSE, final_status |-> "SKIPPED"]),
     Returns([analysis_saved |-> TRUE, final_status |-> "COMPLETED"]),
     Raises("save failed")}

\* the outcomes of NODE_FUNCTIONS[node_name](s); any node function may also
\* hand back something that is not a dict
node_func(node_name, s) ==
    (CASE node_name = "reconstruct" -> conversation_reconstruction_node(s)
       [] node_name = "persist" -> persistence_node(s)
       [] node_name = "email" -> email_node(s)
       [] node_name = "analyze" -> analysis_node(s)
       [] node_name = "suggest" -> suggestions_node(s)
       [] node_name = "save_analysis" -> save_analysis_node(s))
    \cup {NonMapping}

(***************************************************************************)
(* Tracked step wrapper.                                                   *)
(***************************************************************************)
\* d1 updated with the items of d2 (dict item assignment / {**d1, **d2})
Update(d1, d2) ==
    [k \in DOMAIN d1 \cup DOMAIN d2 |-> IF k \in DOMAIN d2 THEN d2[k] ELSE d1[k]]

\* str(e) of the TypeError raised by result["execution_trace"] = ... when
\* result is not a mapping
ItemAssignmentError == "object does not support item assignment"

\* f"{node_name}[ERROR]"
ErrorEntry(node_name) == node_name \o "[ERROR]"

\* f"Errore in {node_name}: {str(e)}"
ErrorMessage(node_name, msg) == "Errore in " \o node_name \o ": " \o msg

\* an except branch that records the failed step but declares no error
ErrorDelta_Swallow(node_name, s, msg) ==
    [execution_trace |->
         Append(Get(s, "execution_trace", <<>>), ErrorEntry(node_name)),
     current_step_index |-> Get(s, "current_step_index", 0) + 1]

\* an except branch that leaves the index where it was
ErrorDelta_NoAdvance(node_name, s, msg) ==
    [error |-> ErrorMessage(node_name, msg),
     execution_trace |->
         Append(Get(s, "execution_trace", <<>>), ErrorEntry(node_name)),
     skip_remaining |-> TRUE,
     current_step_index |-> Get(s, "current_step_index", 0)]

\* an except branch that does not record the failed step in the trace
ErrorDelta_NoTrace(node_name, s, msg) ==
    [error |-> ErrorMessage(node_name, msg),
     execution_trace |-> Get(s, "execution_trace", <<>>),
     skip_remaining |-> TRUE,
     current_step_index |-> Get(s, "current_step_index", 0) + 1]

\* an except branch that also marks the payload as failed
ErrorDelta_SetsFinalStatus(node_name, s, msg) ==
    [error |-> ErrorMessage(node_name, msg),
     execution_trace |->
         Append(Get(s, "execution_trace", <<>>), ErrorEntry(node_name)),
     skip_remaining |-> TRUE,
     current_step_index |-> Get(s, "current_step_index", 0) + 1,
     final_status |-> "ERROR"]

\* the except branch of wrapped
ErrorDelta(node_name, s, msg) ==
    [error |-> ErrorMessage(node_name, msg),
     execution_trace |->
         Append(Get(s, "execution_trace", <<>>), ErrorEntry(node_name)),
     skip_remaining |-> TRUE,
     current_step_index |-> Get(s, "current_step_index", 0) + 1]

\* a try branch that starts the trace afresh instead of copying it
SuccessDelta_FreshTrace(node_name, s, upd) ==
    Update(upd,
           [execution_trace |-> <<node_name>>,
            current_step_index |-> Get(s, "current_step_index", 0) + 1])

\* a try branch that keeps the engine's fields out of the handler's reach:
\* error and skip_remaining of the update are dropped
SuccessDelta_DropsError(node_name, s, upd) ==
    Update([k \in DOMAIN upd \ {"error", "skip_remaining"} |-> upd[k]],
           [execution_trace |->
                Append(Get(s, "execution_trace", <<>>), node_name),
            current_step_index |-> Get(s, "current_step_index", 0) + 1])

\* the try branch of wrapped, for a handler that returned the mapping upd
SuccessDelta(node_name, s, upd) ==
    Update(upd,
           [execution_trace |->
                Append(Get(s, "execution_trace", <<>>), node_name),
            current_step_index |-> Get(s, "current_step_index", 0) + 1])

\* a wrapper that takes a result that is not a mapping for an empty update
wrapped_NoneAsEmpty(node_name, s, o) ==
    IF o.kind = "return" THEN SuccessDelta(node_name, s, o.upd)
    ELSE IF o.kind = "raise" THEN ErrorDelta(node_name, s, o.msg)
    ELSE SuccessDelta(node_name, s, EmptyDelta)

\* the delta wrapped(state) returns when the handler's outcome is o
wrapped(node_name, s, o) ==
    IF o.kind = "return" THEN SuccessDelta(node_name, s, o.upd)
    ELSE IF o.kind = "raise" THEN ErrorDelta(node_name, s, o.msg)
    ELSE ErrorDelta(node_name, s, ItemAssignmentError)

(***************************************************************************)
(* The list objects a call of wrapped handles.  Python lists are objects:  *)
(* `trace` is the very list held by the state the wrapper receives (or the *)
(* [] of state.get when the key is missing), trace.copy() makes a new      *)
(* object, and append changes the object it is called on.                  *)
(***************************************************************************)
\* trace = state.get("execution_trace", []): the object the name denotes
trace_object(s) ==
    IF "execution_trace" \in DOMAIN s THEN "state" ELSE "default"

\* a copy() that hands back the list it was called on
list_copy_Alias(heap, ref, new) == [ref |-> ref, heap |-> heap]

\* list.copy(): a new object new with the items of ref
list_copy(heap, ref, new) ==
    [ref |-> new, heap |-> Update(heap, [c \in {new} |-> heap[ref]])]

\* list.append(item): the object ref gets one more item
list_append(heap, ref, item) == [heap EXCEPT ![ref] = Append(@, item)]

\* one call wrapped(state) with handler outcome o, followed on the objects:
\* the state object as it is when the call returns, the delta returned, and
\* which object the delta's execution_trace is
tracked_call(node_name, s, o) ==
    LET trace == trace_object(s)
        h0 == [c \in {trace} |-> Get(s, "execution_trace", <<>>)]
        try == list_copy(h0, trace, "try")
        h1 == list_append(try.heap, try.ref, node_name)
        \* a result that is not a mapping fails at result["execution_trace"]
        \* = trace_copy, after the try branch made and filled its copy
        exc == list_copy(IF o.kind = "raise" THEN h0 ELSE h1, trace, "except")
        h2 == list_append(exc.heap, exc.ref, ErrorEntry(node_name))
        heap == IF o.kind = "return" THEN h1 ELSE h2
        trace_copy == IF o.kind = "return" THEN try.ref ELSE exc.ref
    IN  [state |-> IF trace = "state"
                   THEN [s EXCEPT !["execution_trace"] = heap["state"]]
                   ELSE s,
         delta |-> wrapped(node_name, s, o),
         trace |-> trace,
         trace_copy |-> trace_copy,
         copied |-> heap[trace_copy]]

NoCall == [state |-> [k \in {} |-> None], delta |-> EmptyDelta,
           trace |-> "", trace_copy |-> "", copied |-> <<>>]

(***************************************************************************)
(* Graph state and the run endpoint.                                       *)
(***************************************************************************)
\* a graph that replaces the state by the delta of the node, keeping only
\* the plan, instead of merging the delta into the state
ApplyDelta_Replaces(s, delta) ==
    Update([k \in DOMAIN s \cap {"steps"} |-> s[k]], delta)

\* how the compiled graph applies a node's delta: every key of the delta
\* overwrites the state's value, every other key is kept
ApplyDelta(s, delta) == Update(s, delta)

\* transcripts a caller may pass in
InputTranscripts == {"", "ciao"}

NoWorkflow == WStr("<absent>")

\* the bodies of POST /api/graph/run: the workflow field may be absent
RunRequests ==
    [has_workflow : {TRUE}, workflow : WorkflowRequests,
     transcript : InputTranscripts]
    \cup [has_workflow : {FALSE}, workflow : {NoWorkflow},
          transcript : InputTranscripts]

NoRequest == [has_workflow |-> FALSE, workflow |-> NoWorkflow, transcript |-> ""]

\* request.get("workflow", "full")
workflow_spec(req) == IF req.has_workflow THEN req.workflow ELSE WStr("full")

\* the initial_state run_dynamic_workflow builds
initial_state(steps, req) ==
    [transcript |-> req.transcript,
     steps |-> steps,
     current_step_index |-> 0,
     execution_trace |-> <<>>,
     skip_remaining |-> FALSE,
     error |-> None,
     persistence_result |-> None,
     email_result |-> None,
     suggestions |-> None,
     action_plan |-> None,
     analysis_saved |-> FALSE,
     final_status |-> None]

\* the states a direct caller of the exported graph passes: the control
\* fields may be missing (as in the transcribe endpoints) or set by hand
GraphCallerStates ==
    LET base == {[transcript |-> t] : t \in InputTranscripts}
        withSteps == {Update(b, [steps |-> p]) :
                         b \in base, p \in SeqsUpTo(ListNames, MaxListLen)}
        withIndex == {Update(b, [current_step_index |-> i]) :
                         b \in base \cup withSteps, i \in 0..MaxStartIndex}
    IN  base \cup withSteps \cup withIndex

NoState == [k \in {} |-> None]

Answer(kind, status, detail, success, steps, trace, error, payload) ==
    [kind |-> kind, status |-> status, detail |-> detail, success |-> success,
     workflow_executed |-> steps, execution_trace |-> trace, error |-> error,
     state |-> payload]

NoResponse == Answer("none", 0, "", FALSE, <<>>, <<>>, None, NoState)

\* except Exception as e: raise HTTPException(status_code=500, detail=str(e))
InternalError(detail) ==
    Answer("http", 500, detail, FALSE, <<>>, <<>>, None, NoState)

\* an exception leaving dynamic_graph.ainvoke towards a direct caller
Propagated(detail) ==
    Answer("exception", 0, detail, FALSE, <<>>, <<>>, None, NoState)

\* str(e) of HTTPException(status_code=400, detail=...)
NoValidStep == "400: Nessun passo valido nel workflow richiesto"

\* str(e) of the KeyError for a route that is no node of the graph
UnknownRoute(name) == "'" \o name \o "'"

\* a response that reports success whatever the final state holds
RunResult_AlwaysSuccess(steps, final_state) ==
    Answer("http", 200, "", TRUE, steps,
           Get(final_state, "execution_trace", <<>>),
           Get(final_state, "error", None),
           [transcript |-> Get(final_state, "transcript", ""),
            persistence_result |-> Get(final_state, "persistence_result", None),
            email_result |-> Get(final_state, "email_result", None),
            suggestions |-> Get(final_state, "suggestions", None),
            action_plan |-> Get(final_state, "action_plan", None),
            final_status |-> Get(final_state, "final_status", "COMPLETED")])

\* the response body run_dynamic_workflow builds from the final state
RunResult(steps, final_state) ==
    Answer("http", 200, "",
           ~TruthyStr(Get(final_state, "error", None)),
           steps,
           Get(final_state, "execution_trace", <<>>),
           Get(final_state, "error", None),
           [transcript |-> Get(final_state, "transcript", ""),
            persistence_result |-> Get(final_state, "persistence_result", None),
            email_result |-> Get(final_state, "email_result", None),
            suggestions |-> Get(final_state, "suggestions", None),
            action_plan |-> Get(final_state, "action_plan", None),
            final_status |-> Get(final_state, "final_status", "COMPLETED")])

\* what the caller gets when an exception leaves the graph
Failure(detail) ==
    IF caller = "run" THEN InternalError(detail) ELSE Propagated(detail)

(***************************************************************************)
(* The module-level objects.  DEFAULT_FLOW and the lists of                *)
(* PRESET_WORKFLOWS are handed out by reference: the "steps" of a run      *)
(* resolved to one of them is that very list, for every run.               *)
(***************************************************************************)
Tables ==
    [DEFAULT_FLOW |-> DEFAULT_FLOW,
     PRESET_WORKFLOWS |-> PRESET_WORKFLOWS,
     NODE_FUNCTIONS |-> NODE_FUNCTIONS]

DefaultList == [table |-> "DEFAULT_FLOW", name |-> ""]
PresetList(name) == [table |-> "PRESET_WORKFLOWS", name |-> name]
OwnList == [table |-> "own", name |-> ""]

\* which list object prepare_workflow_steps returns
steps_object(w) ==
    IF ~w.truthy THEN DefaultList
    ELSE IF w.type = "str"
         THEN IF w.name \in DOMAIN PRESET_WORKFLOWS
              THEN PresetList(w.name)
              ELSE OwnList
    ELSE IF w.type = "list" THEN OwnList
    ELSE DefaultList

\* the list object the routers read their plan from:
\* state.get("steps", DEFAULT_FLOW)
plan_object(c, req, s) ==
    IF "steps" \notin DOMAIN s THEN DefaultList
    ELSE IF c = "run" THEN steps_object(workflow_spec(req))
    ELSE OwnList

\* the items of a list object, own being the items of a list of the run
Deref(tbl, ref, own) ==
    IF ref.table = "DEFAULT_FLOW" THEN tbl.DEFAULT_FLOW
    ELSE IF /\ ref.table = "PRESET_WORKFLOWS"
            /\ ref.name \in DOMAIN tbl.PRESET_WORKFLOWS
         THEN tbl.PRESET_WORKFLOWS[ref.name]
    ELSE own

Store(tbl, ref, items) ==
    IF ref.table = "DEFAULT_FLOW" THEN [tbl EXCEPT !.DEFAULT_FLOW = items]
    ELSE IF /\ ref.table = "PRESET_WORKFLOWS"
            /\ ref.name \in DOMAIN tbl.PRESET_WORKFLOWS
         THEN [tbl EXCEPT !.PRESET_WORKFLOWS[ref.name] = items]
    ELSE tbl

\* a lookup that takes the entry out of the table (PRESET_WORKFLOWS.pop(k))
dict_getitem_Pop(d, k) ==
    [item |-> d[k], dict |-> [j \in DOMAIN d \ {k} |-> d[j]]]

\* d[k]: the item, and the table as the lookup leaves it
dict_getitem(d, k) == [item |-> d[k], dict |-> d]

\* prepare_workflow_steps run on the tables as they are: the plan it
\* returns and the tables as it leaves them
prepare_workflow_steps_in(tbl, w) ==
    LET registered(step) == step \in tbl.NODE_FUNCTIONS
        preset == dict_getitem(tbl.PRESET_WORKFLOWS, w.name)
    IN  IF ~w.truthy THEN [steps |-> tbl.DEFAULT_FLOW, tables |-> tbl]
        ELSE IF w.type = "str"
             THEN IF w.name \in DOMAIN tbl.PRESET_WORKFLOWS
                  THEN [steps |-> preset.item,
                        tables |-> [tbl EXCEPT !.PRESET_WORKFLOWS = preset.dict]]
                  ELSE [steps |-> <<w.name>>, tables |-> tbl]
        ELSE IF w.type = "list"
             THEN [steps |-> SelectSeq(w.list, registered), tables |-> tbl]
        ELSE [steps |-> tbl.DEFAULT_FLOW, tables |-> tbl]

\* the state a function of the run sees: its "steps" is the list object
View(tbl, ref, s) ==
    IF "steps" \in DOMAIN s
    THEN [s EXCEPT !["steps"] = Deref(tbl, ref, s["steps"])]
    ELSE s

\* an indexing that takes the item out of the list (steps.pop(i))
list_getitem_Pop(items, i) ==
    [item |-> items[i + 1],
     list |-> SubSeq(items, 1, i) \o SubSeq(items, i + 2, Len(items))]

\* steps[i]: the item, and the list as the indexing leaves it
list_getitem(items, i) == [item |-> items[i + 1], list |-> items]

\* the tables after get_entry_point(s) ran on the list object ref
entry_reads(tbl, ref, s) ==
    LET steps == Get(s, "steps", tbl.DEFAULT_FLOW)
        current_index == Get(s, "current_step_index", 0)
    IN  IF steps = <<>>
        THEN Store(tbl, DefaultList, list_getitem(tbl.DEFAULT_FLOW, 0).list)
        ELSE IF current_index < Len(steps)
        THEN Store(tbl, ref, list_getitem(steps, current_index).list)
        ELSE Store(tbl, ref, list_getitem(steps, 0).list)

\* the tables after route_to_next_step(s) ran on the list object ref
route_reads(tbl, ref, s) ==
    LET steps == Get(s, "steps", tbl.DEFAULT_FLOW)
        current_index == Get(s, "current_step_index", 0)
    IN  IF route_to_next_step(s) = END THEN tbl
        ELSE Store(tbl, ref, list_getitem(steps, current_index).list)

(***************************************************************************)
(* The state machine.                                                      *)
(***************************************************************************)
Init ==
    /\ caller \in {"run", "graph"}
    /\ request \in (IF caller = "run" THEN RunRequests ELSE {NoRequest})
    /\ pc = "idle"
    /\ state = NoState
    /\ initial = NoState
    /\ cur = None
    /\ invoked = <<>>
    /\ response = NoResponse
    /\ call = NoCall
    /\ tables = Tables

\* run_dynamic_workflow up to the call of the graph: resolve the plan,
\* refuse an empty one, build the initial state
Resolve ==
    /\ caller = "run"
    /\ pc = "idle"
    /\ LET steps == prepare_workflow_steps(workflow_spec(request))
       IN  IF steps = <<>>
           THEN /\ response' = InternalError(NoValidStep)
                /\ pc' = "done"
                /\ UNCHANGED <<state, initial>>
           ELSE /\ state' = initial_state(steps, request)
                /\ initial' = state'
                /\ pc' = "start"
                /\ response' = response
    /\ tables' = prepare_workflow_steps_in(tables, workflow_spec(request)).tables
    /\ UNCHANGED <<caller, request, cur, invoked, call>>

\* a direct caller invokes the exported graph on its own state
GraphInvoke ==
    /\ caller = "graph"
    /\ pc = "idle"
    /\ \E s0 \in GraphCallerStates : state' = s0
    /\ initial' = state'
    /\ pc' = "start"
    /\ UNCHANGED <<caller, request, cur, invoked, response, call, tables>>

\* the conditional edge out of __start__
EntryRoute ==
    /\ pc = "start"
    /\ LET node == get_entry_point(state)
       IN  IF node \in NODE_FUNCTIONS
           THEN /\ cur' = node
                /\ pc' = "node"
                /\ response' = response
           ELSE /\ response' = Failure(UnknownRoute(node))
                /\ pc' = "done"
                /\ cur' = cur
    /\ tables' = entry_reads(tables, plan_object(caller, request, state), state)
    /\ UNCHANGED <<caller, request, state, initial, invoked, call>>

\* the graph runs the tracked node cur and applies the delta it returns
ExecuteNode ==
    /\ pc = "node"
    /\ \E o \in node_func(cur, state) :
          /\ state' = ApplyDelta(state, wrapped(cur, state, o))
          /\ invoked' = Append(invoked,
                               [index |-> Get(state, "current_step_index", 0),
                                name |-> cur,
                                outcome |-> o])
          /\ call' = tracked_call(cur, state, o)
    /\ pc' = "route"
    /\ UNCHANGED <<caller, request, initial, cur, response, tables>>

\* the conditional edge out of a step node
Route ==
    /\ pc = "route"
    /\ LET next_node == route_to_next_step(state)
       IN  IF next_node = END
           THEN /\ pc' = "end"
                /\ UNCHANGED <<cur, response>>
           ELSE IF next_node \in NODE_FUNCTIONS
           THEN /\ cur' = next_node
                /\ pc' = "node"
                /\ response' = response
           ELSE /\ response' = Failure(UnknownRoute(next_node))
                /\ pc' = "done"
                /\ cur' = cur
    /\ tables' = route_reads(tables, plan_object(caller, request, state), state)
    /\ UNCHANGED <<caller, request, state, initial, invoked, call>>

\* ainvoke returns the final state; the endpoint builds its response
Respond ==
    /\ pc = "end"
    /\ response' =
          IF caller = "run"
          THEN RunResult(Get(state, "steps", <<>>), state)
          ELSE Answer("state", 0, "", FALSE, <<>>,
                      Get(state, "execution_trace", <<>>),
                      Get(state, "error", None), state)
    /\ pc' = "done"
    /\ UNCHANGED <<caller, request, state, initial, cur, invoked, call,
                   tables>>

Next ==
    \/ Resolve
    \/ GraphInvoke
    \/ EntryRoute
    \/ ExecuteNode
    \/ Route
    \/ Respond

Spec == Init /\ [][Next]_vars

TypeOK ==
    /\ caller \in {"run", "graph"}
    /\ pc \in {"idle", "start", "node", "route", "end", "done"}
    /\ cur \in NODE_FUNCTIONS \cup {None}

(***************************************************************************)
(* Vocabulary of the properties.                                           *)
(***************************************************************************)
\* the plan the router reads
plan == Get(state, "steps", DEFAULT_FLOW)
index == Get(state, "current_step_index", 0)
trace == Get(state, "execution_trace", <<>>)
error == Get(state, "error", None)
skip_remaining == Get(state, "skip_remaining", FALSE)

Last(s) == s[Len(s)]
Min(a, b) == IF a < b THEN a ELSE b

\* the run was started by the graph (the plan was not refused)
Started == pc \notin {"idle"} /\ initial # NoState

\* the run started at index 0 with an empty trace, on a plan of at least
\* one step, all of them registered
StartedAtZero ==
    /\ Started
    /\ Get(initial, "current_step_index", 0) = 0
    /\ Get(initial, "execution_trace", <<>>) = <<>>

ValidPlan ==
    /\ plan # <<>>
    /\ \A i \in 1..Len(plan) : plan[i] \in NODE_FUNCTIONS

\* the handler raised, returned no mapping, or returned an update with an error
Raised(o) == o.kind = "raise"
ReturnedError(o) == o.kind = "return" /\ TruthyStr(Get(o.upd, "error", None))
Failed(o) == o.kind # "return" \/ ReturnedError(o)

NoFailure == \A i \in 1..Len(invoked) : ~Failed(invoked[i].outcome)

\* the graph reached END (and the caller may have its answer)
RunEnded ==
    \/ pc = "end"
    \/ pc = "done" /\ response.kind = "state"
    \/ pc = "done" /\ response.kind = "http" /\ response.status = 200

(***************************************************************************)
(* C1: every run over a plan of registered steps that starts at index 0    *)
(* with an empty trace and in which no handler fails ends with             *)
(* execution_trace equal to the plan and current_step_index equal to the   *)
(* plan's length.                                                          *)
(***************************************************************************)
C1_CleanRunTraceIsPlan ==
    (RunEnded /\ StartedAtZero /\ ValidPlan /\ NoFailure)
        => /\ trace = plan
           /\ index = Len(plan)

\* a clean run of a plan that repeats a step has ended
C1_Witness ==
    /\ RunEnded /\ StartedAtZero /\ ValidPlan /\ NoFailure
    /\ Len(plan) >= 3
    /\ \E i, j \in 1..Len(plan) : i < j /\ plan[i] = plan[j]
    /\ trace = plan

(***************************************************************************)
(* C2: when the handler at plan position k is the first to fail by         *)
(* raising, in a run started at index 0 with an empty trace, the trace has *)
(* k+1 entries, the last one "<name_k>[ERROR]", error is the message       *)
(* naming the step, skip_remaining is true, and no handler runs at a later *)
(* position: the raising call stays the last call of the run.              *)
(***************************************************************************)
C2_RaiseStopsRun ==
    (StartedAtZero /\ ValidPlan) =>
        \A i \in 1..Len(invoked) :
            Raised(invoked[i].outcome) =>
                LET k == invoked[i].index
                IN  /\ i = Len(invoked)
                    /\ k = i - 1
                    /\ k < Len(plan)
                    /\ invoked[i].name = plan[k + 1]
                    /\ Len(trace) = k + 1
                    /\ Last(trace) = ErrorEntry(plan[k + 1])
                    /\ error = ErrorMessage(plan[k + 1], invoked[i].outcome.msg)
                    /\ TruthyStr(error)
                    /\ skip_remaining = TRUE
                    /\ pc \in {"route", "end", "done"}
                    /\ pc = "done" => RunEnded

\* preset full with a failing email step: the run has ended after 3 calls
C2_Witness ==
    /\ caller = "run" /\ pc = "done"
    /\ plan = PRESET_WORKFLOWS["full"]
    /\ Len(invoked) = 3
    /\ Raised(invoked[3].outcome)
    /\ trace = <<"reconstruct", "persist", "email[ERROR]">>
    /\ response.success = FALSE

(***************************************************************************)
(* C3: whenever a handler fails, by raising or by returning an update that *)
(* carries an error, the step is recorded in execution_trace as            *)
(* "<step_name>[ERROR]" and skip_remaining is set to true.                 *)
(***************************************************************************)
C3_FailureIsMarked ==
    (pc = "route" /\ Failed(Last(invoked).outcome))
        => /\ Last(trace) = ErrorEntry(Last(invoked).name)
           /\ skip_remaining = TRUE

(***************************************************************************)
(* C4: after a step, the router terminates if skip_remaining is true,      *)
(* otherwise terminates if error is set, otherwise terminates if           *)
(* current_step_index >= len(plan), otherwise goes to                      *)
(* plan[current_step_index]; so it terminates on skip_remaining or error   *)
(* even when plan entries are left.                                        *)
(***************************************************************************)
C4_Expected ==
    IF skip_remaining THEN END
    ELSE IF TruthyStr(error) THEN END
    ELSE IF index >= Len(plan) THEN END
    ELSE plan[index + 1]

C4_PostStepRouting ==
    [][pc = "route" =>
          /\ state' = state
          /\ C4_Expected = END => pc' = "end"
          /\ C4_Expected \in NODE_FUNCTIONS => pc' = "node" /\ cur' = C4_Expected
          /\ C4_Expected \notin NODE_FUNCTIONS \cup {END} =>
                 pc' = "done" /\ response'.detail = UnknownRoute(C4_Expected)
      ]_vars

\* the router terminated on the error field alone, with plan entries left
C4_Witness ==
    /\ pc = "end"
    /\ TruthyStr(error)
    /\ ~skip_remaining
    /\ index < Len(plan)

\* the router terminated on skip_remaining, with plan entries left
C4_WitnessSkip ==
    /\ pc = "end"
    /\ skip_remaining
    /\ index < Len(plan)

(***************************************************************************)
(* C5: a handler failure never reaches the caller as an exception: the run *)
(* completes, and the run endpoint answers with success = false exactly    *)
(* when the final state's error is set, that error attached.               *)
(***************************************************************************)
C5_FailureIsReported ==
    /\ (pc = "done" /\ invoked # <<>> /\ Failed(Last(invoked).outcome))
          => /\ response.kind # "exception"
             /\ response.status # 500
             /\ caller = "run" =>
                    /\ response.status = 200
                    /\ response.success = FALSE
                    /\ TruthyStr(response.error)
    /\ (pc = "done" /\ response.status = 200)
          => /\ response.success = ~TruthyStr(error)
             /\ response.error = error
             /\ response.execution_trace = trace
             /\ response.workflow_executed = plan
    /\ (pc \in {"route", "end"} /\ Failed(Last(invoked).outcome))
          => route_to_next_step(state) = END

\* the endpoint answered a run whose second handler raised
C5_Witness ==
    /\ caller = "run" /\ pc = "done"
    /\ Len(invoked) = 2
    /\ Raised(invoked[2].outcome)
    /\ response.status = 200
    /\ response.success = FALSE
    /\ response.error = ErrorMessage(plan[2], invoked[2].outcome.msg)

(***************************************************************************)
(* C6: every name of a plan the resolver returns is a registered step      *)
(* name, whatever the form of the workflow request.                        *)
(***************************************************************************)
C6_ResolvedPlanIsRegistered ==
    (caller = "run" /\ Started)
        => \A i \in 1..Len(initial.steps) : initial.steps[i] \in NODE_FUNCTIONS

(***************************************************************************)
(* C7: a string request that matches no preset and names no registered     *)
(* step fails at plan resolution: the graph is never started.              *)
(***************************************************************************)
C7_UnknownString ==
    /\ caller = "run"
    /\ request.has_workflow
    /\ request.workflow.type = "str"
    /\ request.workflow.name \notin
           DOMAIN PRESET_WORKFLOWS \cup NODE_FUNCTIONS \cup {""}

C7_UnknownStringFailsAtResolution ==
    C7_UnknownString => ~Started

(***************************************************************************)
(* C8 as stated: entry-point selection returns                             *)
(* plan[min(current_step_index, len(plan)-1)] for every non-empty plan,    *)
(* also when the index is at or beyond the end of the plan.                *)
(***************************************************************************)
\* the graph has just left __start__ for a node
Entered == pc = "node" /\ invoked = <<>>

C8_EntryIsClamped ==
    (Entered /\ plan # <<>>) => cur = plan[Min(index, Len(plan) - 1) + 1]

(***************************************************************************)
(* C8 amended: entry-point selection returns plan[current_step_index] when *)
(* the index is below len(plan) and plan[0] when it is at or beyond the    *)
(* end; for an empty plan it returns the default plan's first element.     *)
(***************************************************************************)
C8_EntryRestartsAtFirst ==
    Entered =>
        cur = IF plan = <<>> THEN DEFAULT_FLOW[1]
              ELSE IF index < Len(plan) THEN plan[index + 1]
              ELSE plan[1]

\* entered with an index beyond a plan whose first and last steps differ
C8_Witness ==
    /\ Entered
    /\ plan # <<>>
    /\ index >= Len(plan)
    /\ plan[1] # plan[Len(plan)]
    /\ cur = plan[1]

(***************************************************************************)
(* C9: a run request without a workflow field executes the default plan:   *)
(* reconstruct, persist, email, analyze, suggest, save_analysis, email.    *)
(***************************************************************************)
C9_AbsentWorkflowRunsDefault ==
    (caller = "run" /\ ~request.has_workflow /\ pc # "idle")
        => /\ Started
           /\ plan = DEFAULT_FLOW
           /\ plan = <<"reconstruct", "persist", "email", "analyze",
                       "suggest", "save_analysis", "email">>

(***************************************************************************)
(* C10: the resolver maps None, the empty string and the empty list to the *)
(* default plan, never to an empty plan: such a request is not refused and *)
(* its run starts on the default plan.                                     *)
(***************************************************************************)
C10_EmptyRequest ==
    /\ caller = "run"
    /\ request.has_workflow
    /\ request.workflow \in {WNone, WStr(""), WList(<<>>)}

C10_EmptyRequestRunsDefault ==
    (C10_EmptyRequest /\ pc # "idle")
        => /\ Started
           /\ initial.steps = DEFAULT_FLOW
           /\ initial.steps # <<>>
           /\ plan = DEFAULT_FLOW

\* a run for an empty list request is on the default plan's last step
C10_Witness ==
    /\ C10_EmptyRequest
    /\ request.workflow = WList(<<>>)
    /\ pc = "node"
    /\ index = Len(DEFAULT_FLOW) - 1
    /\ cur = "email"

(***************************************************************************)
(* C11: for an explicit (non-empty) list request the resolved plan is      *)
(* exactly the sub-sequence of the list made of its registered names, in   *)
(* the original order and with repeats kept; a list with an unregistered   *)
(* name among valid names yields that plan and the run starts on it.       *)
(***************************************************************************)
IsRegistered(name) == name \in NODE_FUNCTIONS

C11_ListRequest ==
    /\ caller = "run"
    /\ request.has_workflow
    /\ request.workflow.type = "list"
    /\ request.workflow.list # <<>>

C11_ListIsFiltered ==
    (C11_ListRequest /\ pc # "idle") =>
        LET kept == SelectSeq(request.workflow.list, IsRegistered)
        IN  IF kept = <<>>
            THEN ~Started /\ pc = "done" /\ response.detail = NoValidStep
            ELSE /\ Started
                 /\ initial.steps = kept
                 /\ plan = kept
                 /\ pc = "done" => response.detail # NoValidStep

\* a list with an unregistered name between two occurrences of a valid name
C11_Witness ==
    /\ C11_ListRequest
    /\ request.workflow.list = <<"email", "bogus", "email">>
    /\ pc = "done"
    /\ response.status = 200
    /\ response.workflow_executed = <<"email", "email">>
    /\ Len(invoked) = 2

(***************************************************************************)
(* C12: when resolution yields no valid step (a non-empty list of          *)
(* unregistered names) the run never starts, no handler is invoked, and    *)
(* the caller receives the HTTP 400 'no valid step' response, not the HTTP *)
(* 500 of internal failures.                                               *)
(***************************************************************************)
C12_NoValidStepRequest ==
    /\ C11_ListRequest
    /\ \A i \in 1..Len(request.workflow.list) :
           request.workflow.list[i] \notin NODE_FUNCTIONS

C12_EmptyPlanIsRefusedWith400 ==
    (C12_NoValidStepRequest /\ pc = "done")
        => /\ ~Started
           /\ invoked = <<>>
           /\ response.status = 400

(***************************************************************************)
(* C13: during a run current_step_index never decreases; every step        *)
(* invocation, successful or failed, increases it by exactly 1, and entry  *)
(* selection and post-step routing leave it unchanged.                     *)
(***************************************************************************)
C13_IndexAdvancesByOne ==
    [][pc # "idle" =>
          /\ index' >= index
          /\ invoked' # invoked => index' = index + 1
          /\ invoked' = invoked => index' = index
      ]_vars

\* the second step of a run failed and the index went from 1 to 2
C13_Witness ==
    /\ pc = "route"
    /\ Len(invoked) = 2
    /\ Failed(invoked[2].outcome)
    /\ invoked[2].index = 1
    /\ index = 2

(***************************************************************************)
(* C14: execution_trace is append-only: a step invocation leaves the old   *)
(* trace as a prefix of the new one and adds exactly one entry; nothing    *)
(* else changes the trace.                                                 *)
(***************************************************************************)
C14_TraceIsAppendOnly ==
    [][pc # "idle" =>
          /\ invoked' # invoked =>
                 /\ Len(trace') = Len(trace) + 1
                 /\ SubSeq(trace', 1, Len(trace)) = trace
          /\ invoked' = invoked => trace' = trace
      ]_vars

\* three steps have been recorded one after the other
C14_Witness ==
    /\ pc = "route"
    /\ Len(invoked) = 3
    /\ trace = <<invoked[1].name, invoked[2].name, invoked[3].name>>

(***************************************************************************)
(* C15: in a run started at index 0 each plan position is invoked at most  *)
(* once and in order (no retry), exactly once when no earlier position     *)
(* failed; a name occurring twice in the plan is invoked once per          *)
(* occurrence, each with its own index and its own trace entry.            *)
(***************************************************************************)
C15_OncePerPosition ==
    (StartedAtZero /\ ValidPlan) =>
        /\ Len(invoked) <= Len(plan)
        /\ Len(trace) = Len(invoked)
        /\ \A i \in 1..Len(invoked) :
              /\ invoked[i].index = i - 1
              /\ invoked[i].name = plan[i]
              /\ trace[i] \in {plan[i], ErrorEntry(plan[i])}
              /\ Failed(invoked[i].outcome) => i = Len(invoked)
        /\ RunEnded =>
              \/ Len(invoked) = Len(plan)
              \/ Failed(Last(invoked).outcome)

\* the default plan ran to its end: email was invoked at positions 2 and 6
C15_Witness ==
    /\ RunEnded
    /\ plan = DEFAULT_FLOW
    /\ Len(invoked) = 7
    /\ invoked[3].name = "email" /\ invoked[3].index = 2
    /\ invoked[7].name = "email" /\ invoked[7].index = 6
    /\ trace[3] = "email" /\ trace[7] = "email"

(***************************************************************************)
(* C16: a handler cannot change an engine-owned field: when its returned   *)
(* update contains current_step_index, execution_trace, skip_remaining or  *)
(* error, that value is rejected or ignored, and the control fields after  *)
(* the step are the ones the wrapper computes (for a handler that returned *)
(* normally: trace + name, index + 1, skip_remaining and error untouched). *)
(***************************************************************************)
EngineOwned == {"current_step_index", "execution_trace", "skip_remaining", "error"}

C16_HandlerCannotSetControlFields ==
    [][(invoked' # invoked /\ Last(invoked').outcome.kind = "return") =>
          /\ trace' = Append(trace, cur)
          /\ index' = index + 1
          /\ skip_remaining' = skip_remaining
          /\ error' = error
      ]_vars

(***************************************************************************)
(* C18: handler updates are merged shallowly, last writer wins: each       *)
(* top-level domain key holds the value returned by the last executed      *)
(* handler that returned that key, and a key no handler returned keeps its *)
(* initial value; a run without failure is answered with success = true    *)
(* and these values (quick: transcript and persistence_result both there). *)
(***************************************************************************)
\* the handler calls that returned a value for key k
Writers(k) ==
    {i \in 1..Len(invoked) :
        /\ invoked[i].outcome.kind = "return"
        /\ k \in DOMAIN invoked[i].outcome.upd}

LastWriter(k) == CHOOSE i \in Writers(k) : \A j \in Writers(k) : j <= i

DomainKeys(s) == DOMAIN s \ (EngineOwned \cup {"steps"})

C18_LastWriterWins ==
    Started =>
        /\ \A k \in DomainKeys(state) \cup DomainKeys(initial) :
              /\ k \in DOMAIN state
              /\ IF Writers(k) = {}
                 THEN k \in DOMAIN initial /\ state[k] = initial[k]
                 ELSE state[k] = invoked[LastWriter(k)].outcome.upd[k]
        /\ (pc = "done" /\ caller = "run" /\ RunEnded /\ NoFailure) =>
              /\ response.success = TRUE
              /\ response.state.transcript = state["transcript"]
              /\ response.state.persistence_result = state["persistence_result"]
              /\ response.state.email_result = state["email_result"]

\* preset quick: reconstruct returned the transcript, persist its result
C18_Witness ==
    /\ caller = "run" /\ pc = "done"
    /\ request.has_workflow /\ request.workflow = WStr("quick")
    /\ response.execution_trace = <<"reconstruct", "persist">>
    /\ response.state.transcript = "hello"
    /\ response.state.persistence_result = "OK:1"
    /\ response.state.email_result = None
    /\ response.success = TRUE

\* the second email of the default plan overwrote the result of the first
C18_WitnessOverwrite ==
    /\ plan = DEFAULT_FLOW
    /\ Len(invoked) = 7
    /\ invoked[3].outcome.kind = "return" /\ invoked[7].outcome.kind = "return"
    /\ invoked[3].outcome.upd["email_result"] = "SKIPPED_NO_SCOPE"
    /\ state["email_result"] = "TIMEOUT"

(***************************************************************************)
(* The run under the engine's scheduling: the endpoint and the graph run   *)
(* one step after the other without waiting for anything but the handler,  *)
(* so a step that can be taken is eventually taken.                        *)
(***************************************************************************)
FairSpec == Spec /\ WF_vars(Next)

(***************************************************************************)
(* C19: every run over a plan of registered names eventually reaches the   *)
(* terminal state, after at most len(plan) step invocations, and the graph *)
(* goes to its terminal state after a step exactly when skip_remaining is  *)
(* true, error is set, or current_step_index >= len(plan).                 *)
(***************************************************************************)
C19_Terminal ==
    \/ skip_remaining
    \/ TruthyStr(error)
    \/ index >= Len(plan)

C19_Terminates ==
    /\ [](( Started /\ ValidPlan) =>
              /\ Len(invoked) <= Len(plan)
              /\ pc = "route" => (route_to_next_step(state) = END <=> C19_Terminal)
              /\ pc = "end" => C19_Terminal
              /\ pc = "node" => ~C19_Terminal \/ invoked = <<>>)
    /\ (Started /\ ValidPlan) ~> (pc = "done" /\ RunEnded /\ C19_Terminal)

\* the default plan reached the terminal state after exactly 7 invocations
C19_Witness ==
    /\ pc = "done" /\ RunEnded
    /\ plan = DEFAULT_FLOW
    /\ Len(invoked) = Len(plan)
    /\ index >= Len(plan) /\ ~skip_remaining /\ ~TruthyStr(error)

(***************************************************************************)
(* C17: the tracked wrapper never modifies the state it receives: when a   *)
(* call returns, on success or on failure, the state object it was given   *)
(* is as it was (execution_trace, current_step_index and every other       *)
(* key), the changes are carried by the returned delta alone, and the      *)
(* delta's trace is a list of its own, not the one of the state.           *)
(***************************************************************************)
C17_WrapperLeavesInputUntouched ==
    [][invoked' # invoked =>
          /\ call'.state = state
          /\ call'.trace_copy # call'.trace
          /\ call'.delta["execution_trace"] = call'.copied
          /\ call'.delta = wrapped(cur, state, Last(invoked').outcome)
          /\ state' = ApplyDelta(state, call'.delta)]_vars

\* a successful call followed by a failed one: the second was given the
\* state with one trace entry and index 1, and left it so
C17_Witness ==
    /\ Len(invoked) = 2
    /\ invoked[1].outcome.kind = "return"
    /\ invoked[2].outcome.kind = "raise"
    /\ call.trace = "state"
    /\ call.state["execution_trace"] = <<invoked[1].name>>
    /\ call.state["current_step_index"] = 1
    /\ trace = <<invoked[1].name, ErrorEntry(invoked[2].name)>>
    /\ index = 2

(***************************************************************************)
(* Two concurrent runs of POST /api/graph/run.  Every variable of a run    *)
(* becomes a function of the run; the tables are the same objects for      *)
(* both.  A step of the system is one step of one run, so the steps of     *)
(* the two runs interleave in every order.                                 *)
(***************************************************************************)
Runs == {"a", "b"}

\* the requests of the concurrent runs: the default plan and presets, which
\* are handed out by reference, an explicit list, and plans that are refused
ConcWorkflows ==
    {WNone, WStr("quick"), WStr("bogus"), WList(<<"bogus">>),
     WList(<<"email", "bogus", "reconstruct">>)}

ConcRequests ==
    {q \in RunRequests :
        /\ q.transcript = "ciao"
        /\ q.has_workflow => q.workflow \in ConcWorkflows}

\* the state the functions of run r are given
RunView(r) ==
    View(tables, plan_object(caller[r], request[r], state[r]), state[r])

ConcInit ==
    /\ caller = [r \in Runs |-> "run"]
    /\ request \in [Runs -> ConcRequests]
    /\ pc = [r \in Runs |-> "idle"]
    /\ state = [r \in Runs |-> NoState]
    /\ initial = [r \in Runs |-> NoState]
    /\ cur = [r \in Runs |-> None]
    /\ invoked = [r \in Runs |-> <<>>]
    /\ response = [r \in Runs |-> NoResponse]
    /\ call = [r \in Runs |-> NoCall]
    /\ tables = Tables

\* run_dynamic_workflow of run r up to the call of the graph
ResolveRun(r) ==
    /\ pc[r] = "idle"
    /\ LET w == workflow_spec(request[r])
           steps == prepare_workflow_steps_in(tables, w).steps
       IN  IF steps = <<>>
           THEN /\ response' = [response EXCEPT ![r] = InternalError(NoValidStep)]
                /\ pc' = [pc EXCEPT ![r] = "done"]
                /\ UNCHANGED <<state, initial>>
           ELSE /\ state' = [state EXCEPT ![r] = initial_state(steps, request[r])]
                /\ initial' = [initial EXCEPT ![r] = state'[r]]
                /\ pc' = [pc EXCEPT ![r] = "start"]
                /\ response' = response
    /\ tables' = prepare_workflow_steps_in(tables, workflow_spec(request[r])).tables
    /\ UNCHANGED <<caller, request, cur, invoked, call>>

\* the conditional edge out of __start__ in run r
EntryRouteRun(r) ==
    /\ pc[r] = "start"
    /\ LET s == RunView(r)
           node == get_entry_point(s)
       IN  /\ IF node \in NODE_FUNCTIONS
              THEN /\ cur' = [cur EXCEPT ![r] = node]
                   /\ pc' = [pc EXCEPT ![r] = "node"]
                   /\ response' = response
              ELSE /\ response' = [response EXCEPT ![r] = InternalError(UnknownRoute(node))]
                   /\ pc' = [pc EXCEPT ![r] = "done"]
                   /\ cur' = cur
           /\ tables' = entry_reads(tables,
                                    plan_object(caller[r], request[r], s), s)
    /\ UNCHANGED <<caller, request, state, initial, invoked, call>>

\* run r executes its tracked node and applies the delta
ExecuteNodeRun(r) ==
    /\ pc[r] = "node"
    /\ LET s == RunView(r)
       IN  \E o \in node_func(cur[r], s) :
              /\ state' = [state EXCEPT
                              ![r] = ApplyDelta(s, wrapped(cur[r], s, o))]
              /\ invoked' = [invoked EXCEPT
                                ![r] = Append(@,
                                   [index |-> Get(s, "current_step_index", 0),
                                    name |-> cur[r],
                                    outcome |-> o])]
              /\ call' = [call EXCEPT ![r] = tracked_call(cur[r], s, o)]
    /\ pc' = [pc EXCEPT ![r] = "route"]
    /\ UNCHANGED <<caller, request, initial, cur, response, tables>>

\* the conditional edge out of a step node in run r
RouteRun(r) ==
    /\ pc[r] = "route"
    /\ LET s == RunView(r)
           next_node == route_to_next_step(s)
       IN  /\ IF next_node = END
              THEN /\ pc' = [pc EXCEPT ![r] = "end"]
                   /\ UNCHANGED <<cur, response>>
              ELSE IF next_node \in NODE_FUNCTIONS
              THEN /\ cur' = [cur EXCEPT ![r] = next_node]
                   /\ pc' = [pc EXCEPT ![r] = "node"]
                   /\ response' = response
              ELSE /\ response' = [response EXCEPT
                                      ![r] = InternalError(UnknownRoute(next_node))]
                   /\ pc' = [pc EXCEPT ![r] = "done"]
                   /\ cur' = cur
           /\ tables' = route_reads(tables,
                                    plan_object(caller[r], request[r], s), s)
    /\ UNCHANGED <<caller, request, state, initial, invoked, call>>

\* the endpoint of run r builds its response from the final state
RespondRun(r) ==
    /\ pc[r] = "end"
    /\ LET s == RunView(r)
       IN  response' = [response EXCEPT
                           ![r] = RunResult(Get(s, "steps", <<>>), s)]
    /\ pc' = [pc EXCEPT ![r] = "done"]
    /\ UNCHANGED <<caller, request, state, initial, cur, invoked, call,
                   tables>>

ConcNext ==
    \E r \in Runs :
        \/ ResolveRun(r)
        \/ EntryRouteRun(r)
        \/ ExecuteNodeRun(r)
        \/ RouteRun(r)
        \/ RespondRun(r)

ConcSpec == ConcInit /\ [][ConcNext]_vars

(***************************************************************************)
(* C20: for any interleaving of the steps of two concurrent runs, each     *)
(* run's execution_trace, current_step_index, error and final payload are  *)
(* what they are when the run is alone and its handlers do the same: a     *)
(* step or routing action of one run changes nothing of the other run,     *)
(* nor the step registry, the preset table or the default plan.            *)
(***************************************************************************)
RECURSIVE Replay(_, _)
\* the state of a run alone after the handler calls `calls`
Replay(s, calls) ==
    IF calls = <<>> THEN s
    ELSE Replay(ApplyDelta(s, wrapped(calls[1].name, s, calls[1].outcome)),
                Tail(calls))

AlonePlan(r) == prepare_workflow_steps(workflow_spec(request[r]))
AloneAfter(r, k) ==
    Replay(initial_state(AlonePlan(r), request[r]), SubSeq(invoked[r], 1, k))
\* the k-th node the run alone executes
AloneNode(r, k) ==
    IF k = 1 THEN get_entry_point(AloneAfter(r, 0))
    ELSE route_to_next_step(AloneAfter(r, k - 1))
\* the answer of the run alone
AloneResponse(r) ==
    LET s == AloneAfter(r, Len(invoked[r]))
    IN  IF AlonePlan(r) = <<>> THEN InternalError(NoValidStep)
        ELSE IF AloneNode(r, 1) \notin NODE_FUNCTIONS
        THEN InternalError(UnknownRoute(AloneNode(r, 1)))
        ELSE IF route_to_next_step(s) = END THEN RunResult(AlonePlan(r), s)
        ELSE InternalError(UnknownRoute(route_to_next_step(s)))

C20_AsIfAlone(r) ==
    LET n == Len(invoked[r])
    IN  /\ pc[r] \notin {"idle", "done"} \/ n > 0 =>
              /\ state[r] = AloneAfter(r, n)
              /\ RunView(r) = AloneAfter(r, n)
        /\ \A k \in 1..n :
              /\ invoked[r][k].name = AloneNode(r, k)
              /\ invoked[r][k].index = k - 1
              /\ invoked[r][k].outcome
                     \in node_func(AloneNode(r, k), AloneAfter(r, k - 1))
        /\ pc[r] = "node" => cur[r] = AloneNode(r, n + 1)
        /\ pc[r] = "end" => route_to_next_step(AloneAfter(r, n)) = END
        /\ pc[r] = "done" => response[r] = AloneResponse(r)

RunVars(r) ==
    <<caller[r], request[r], pc[r], state[r], initial[r], cur[r],
      invoked[r], response[r], call[r]>>

C20_RunsAreIsolated ==
    /\ [](/\ tables = Tables
          /\ \A r \in Runs : C20_AsIfAlone(r))
    /\ [][/\ tables' = tables
          /\ \E r \in Runs :
                \A q \in Runs \ {r} : RunVars(q)' = RunVars(q)]_vars

\* both runs on the default plan, the same list object, in the middle of
\* it: one has a failed step behind it, the other goes on
C20_Witness ==
    /\ request["a"].workflow = WNone /\ request["a"].has_workflow
    /\ request["b"] = request["a"]
    /\ Len(invoked["a"]) = 4 /\ Last(invoked["a"]).outcome.kind = "raise"
    /\ pc["a"] = "done"
    /\ response["a"] = AloneResponse("a")
    /\ TruthyStr(response["a"].error)
    /\ Len(invoked["b"]) = 2 /\ pc["b"] = "node"
    /\ cur["b"] = DEFAULT_FLOW[3]
    /\ state["b"]["execution_trace"] = <<DEFAULT_FLOW[1], DEFAULT_FLOW[2]>>

(***************************************************************************)
(* C21: the complete-graph engine is observably equivalent to a plain loop *)
(* over the plan with a single termination check: for every plan of        *)
(* registered names and every pattern of handler outcomes, the run (from   *)
(* index 0, the start of the plan) and the loop have the same              *)
(* execution_trace, current_step_index and error, run the same steps and   *)
(* stop at the same point.                                                 *)
(* The loop: while not (skip_remaining or error or index >= len(plan)),    *)
(* run the tracked step plan[index] and merge its delta.                   *)
(***************************************************************************)
LoopDone(s) ==
    \/ Get(s, "skip_remaining", FALSE)
    \/ TruthyStr(Get(s, "error", None))
    \/ Get(s, "current_step_index", 0) >= Len(Get(s, "steps", DEFAULT_FLOW))

\* the step the loop runs next
LoopStep(s) == Get(s, "steps", DEFAULT_FLOW)[Get(s, "current_step_index", 0) + 1]

RECURSIVE Loop(_, _)
\* the loop fed with the handler outcomes outs, one per iteration: the
\* state it reaches and the steps it ran
Loop(l, outs) ==
    IF outs = <<>> \/ LoopDone(l.state) THEN l
    ELSE Loop([state |-> ApplyDelta(l.state,
                                    wrapped(LoopStep(l.state), l.state, Head(outs))),
               ran |-> Append(l.ran, LoopStep(l.state))],
              Tail(outs))

Outcomes == [i \in 1..Len(invoked) |-> invoked[i].outcome]
Names == [i \in 1..Len(invoked) |-> invoked[i].name]

C21_EngineIsPlainLoop ==
    (StartedAtZero /\ ValidPlan /\ pc # "start") =>
        LET l == Loop([state |-> initial, ran |-> <<>>], Outcomes)
        IN  /\ l.ran = Names
            /\ Get(l.state, "execution_trace", <<>>) = trace
            /\ Get(l.state, "current_step_index", 0) = index
            /\ Get(l.state, "error", None) = error
            /\ l.state = state
            /\ pc = "node" => ~LoopDone(l.state) /\ cur = LoopStep(l.state)
            /\ RunEnded => LoopDone(l.state)
            /\ pc = "done" => RunEnded

\* the engine and the loop both stopped early, after the failure of the
\* second of three steps
C21_Witness ==
    /\ StartedAtZero /\ ValidPlan /\ RunEnded
    /\ Len(plan) = 3
    /\ Len(invoked) = 2
    /\ invoked[2].outcome.kind = "raise"
    /\ Loop([state |-> initial, ran |-> <<>>], Outcomes).ran
           = <<plan[1], plan[2]>>
    /\ index = 2

\* both ran the default plan to its end
C21_WitnessFull ==
    /\ StartedAtZero /\ RunEnded /\ plan = DEFAULT_FLOW /\ NoFailure
    /\ Loop([state |-> initial, ran |-> <<>>], Outcomes).ran = DEFAULT_FLOW

(***************************************************************************)
(* C22: the preset table contains full (every registered step once, in     *)
(* canonical order), quick (reconstruct, persist), analysis_only (analyze, *)
(* suggest, save_analysis), no_email (full with email removed), with_email *)
(* (reconstruct, persist, email), and a single-step preset for each        *)
(* registered step name.  A run that names a preset gets its list as plan. *)
(***************************************************************************)
\* the canonical order: the default plan without its closing repeat
Canonical == SubSeq(DEFAULT_FLOW, 1, Len(DEFAULT_FLOW) - 1)

IsNotEmail(name) == name # "email"

\* the presets that consist of the one step name
SingleStepPresets(name) ==
    {p \in DOMAIN tables.PRESET_WORKFLOWS :
        tables.PRESET_WORKFLOWS[p] = <<name>>}

C22_PresetRequest ==
    /\ caller = "run" /\ pc # "idle"
    /\ request.has_workflow
    /\ request.workflow.type = "str"
    /\ request.workflow.name \in DOMAIN tables.PRESET_WORKFLOWS

C22_NamedPresets ==
    LET presets == tables.PRESET_WORKFLOWS
    IN  /\ {"full", "quick", "analysis_only", "no_email", "with_email"}
               \subseteq DOMAIN presets
        /\ presets["full"] = Canonical
        /\ {Canonical[i] : i \in 1..Len(Canonical)} = tables.NODE_FUNCTIONS
        /\ Len(Canonical) = Cardinality(tables.NODE_FUNCTIONS)
        /\ presets["quick"] = <<"reconstruct", "persist">>
        /\ presets["analysis_only"] = <<"analyze", "suggest", "save_analysis">>
        /\ presets["no_email"] = SelectSeq(presets["full"], IsNotEmail)
        /\ presets["no_email"] # presets["full"]
        /\ presets["with_email"] = <<"reconstruct", "persist", "email">>
        /\ C22_PresetRequest =>
               /\ Started
               /\ initial["steps"] = presets[request.workflow.name]

C22_PresetTable ==
    /\ C22_NamedPresets
    /\ \A name \in tables.NODE_FUNCTIONS : SingleStepPresets(name) # {}

(***************************************************************************)
(* C22 amended: the preset table contains full, quick, analysis_only,      *)
(* no_email and with_email as stated, and the single-step presets          *)
(* reconstruct_only, persist_only and email_only; analyze, suggest and     *)
(* save_analysis have no single-step preset.                               *)
(***************************************************************************)
C22_PresetTableAsConfigured ==
    /\ C22_NamedPresets
    /\ \A name \in tables.NODE_FUNCTIONS :
          IF name \in {"reconstruct", "persist", "email"}
          THEN SingleStepPresets(name) = {name \o "_only"}
          ELSE SingleStepPresets(name) = {}

\* a run of the preset no_email has been answered
C22_Witness ==
    /\ C22_PresetRequest
    /\ request.workflow.name = "no_email"
    /\ pc = "done" /\ response.status = 200
    /\ response.workflow_executed = tables.PRESET_WORKFLOWS["no_email"]
    /\ Len(response.execution_trace) = 5
    /\ SingleStepPresets("analyze") = {}

(***************************************************************************)
(* C23: resolution is deterministic and idempotent: resolving the same     *)
(* workflow request twice (two runs of the endpoint, in any interleaving   *)
(* with each other's steps) against unchanged registry, preset and default *)
(* tables yields the same ordered plan, the plan depends on the request    *)
(* alone, and resolving changes none of those tables.                      *)
(***************************************************************************)
Resolved(r) == pc[r] # "idle"

\* the plan run r was resolved to (empty: the run was refused)
ResolvedPlan(r) == Get(initial[r], "steps", <<>>)

C23_ResolutionIsIdempotent ==
    /\ [](\A r \in Runs :
             Resolved(r) =>
                /\ ResolvedPlan(r) = AlonePlan(r)
                /\ \A q \in Runs :
                      (Resolved(q) /\ request[q].workflow = request[r].workflow
                                   /\ request[q].has_workflow = request[r].has_workflow)
                          => ResolvedPlan(q) = ResolvedPlan(r))
    /\ [][\A r \in Runs :
             (~Resolved(r) /\ Resolved(r)') =>
                /\ tables' = tables
                /\ tables = Tables
                /\ ResolvedPlan(r)'
                       = prepare_workflow_steps_in(tables',
                                                   workflow_spec(request[r])).steps]_vars

\* the preset quick was resolved twice, the second time after the first
\* run had already run a step
C23_Witness ==
    /\ request["a"].has_workflow /\ request["a"].workflow = WStr("quick")
    /\ request["b"] = request["a"]
    /\ Len(invoked["a"]) = 0 /\ pc["a"] = "start"
    /\ Len(invoked["b"]) >= 1
    /\ ResolvedPlan("a") = <<"reconstruct", "persist">>
    /\ ResolvedPlan("b") = ResolvedPlan("a")

(***************************************************************************)
(* C24: if a handler returns normally with an update whose error value is  *)
(* non-empty, the run terminates right after that step:                    *)
(* current_step_index still advances by 1, no later plan entry is invoked  *)
(* even though skip_remaining was not set, and the run endpoint reports    *)
(* success = false with that error.                                        *)
(***************************************************************************)
C24_ReturnedErrorEndsRun ==
    \A i \in 1..Len(invoked) :
        ReturnedError(invoked[i].outcome) =>
            /\ i = Len(invoked)
            /\ index = invoked[i].index + 1
            /\ error = invoked[i].outcome.upd["error"]
            /\ skip_remaining = Get(initial, "skip_remaining", FALSE)
            /\ skip_remaining = FALSE
            /\ Last(trace) = invoked[i].name
            /\ pc \in {"route", "end", "done"}
            /\ pc = "route" => route_to_next_step(state) = END
            /\ pc = "done" => RunEnded
            /\ (pc = "done" /\ caller = "run") =>
                  /\ response.status = 200
                  /\ response.success = FALSE
                  /\ response.error = invoked[i].outcome.upd["error"]

\* analysis_only with a transcript and no knowledge base files: analyze
\* returned its error, suggest and save_analysis never ran
C24_Witness ==
    /\ caller = "run" /\ pc = "done"
    /\ plan = PRESET_WORKFLOWS["analysis_only"]
    /\ Len(invoked) = 1
    /\ ReturnedError(invoked[1].outcome)
    /\ index = 1 /\ index < Len(plan)
    /\ ~skip_remaining
    /\ response.success = FALSE
    /\ response.error = "MISSING_KNOWLEDGE_BASE_FILES"

(***************************************************************************)
(* C25: in every reachable state of a run started with                     *)
(* current_step_index = 0 and an empty execution_trace, the length of      *)
(* execution_trace equals current_step_index, and it never exceeds         *)
(* len(plan).                                                              *)
(***************************************************************************)
C25_TraceLengthIsIndex ==
    StartedAtZero =>
        /\ Len(trace) = index
        /\ Len(trace) <= Len(plan)

(***************************************************************************)
(* C25 amended: in every reachable state of a run started with             *)
(* current_step_index = 0 and an empty execution_trace, the length of      *)
(* execution_trace equals current_step_index and the number of handler     *)
(* calls; it never exceeds len(plan), except that a run started on an      *)
(* empty plan executes one step and so reaches length 1.                   *)
(***************************************************************************)
C25_TraceLengthIsIndexUpToPlan ==
    StartedAtZero =>
        /\ Len(trace) = index
        /\ Len(trace) = Len(invoked)
        /\ Len(trace) <= (IF plan = <<>> THEN 1 ELSE Len(plan))

\* the default plan ran to its end: trace, index and plan have length 7
C25_Witness ==
    /\ StartedAtZero /\ RunEnded
    /\ plan = DEFAULT_FLOW
    /\ Len(trace) = Len(plan) /\ index = Len(plan)

\* a run on an empty plan has executed its one step
C25_WitnessEmptyPlan ==
    /\ StartedAtZero /\ RunEnded
    /\ plan = <<>>
    /\ Len(trace) = 1 /\ index = 1

(***************************************************************************)
(* C26: in every reachable state of a run started at index 0 with an empty *)
(* trace, each trace entry j is either plan[j] or plan[j] followed by      *)
(* "[ERROR]", and only the last entry of the trace can carry the "[ERROR]" *)
(* marker.                                                                 *)
(***************************************************************************)
ErrorEntries == {ErrorEntry(name) : name \in NODE_FUNCTIONS}

C26_TraceFollowsPlan ==
    StartedAtZero =>
        \A j \in 1..Len(trace) :
            /\ j <= Len(plan)
            /\ trace[j] \in {plan[j], ErrorEntry(plan[j])}
            /\ trace[j] \in ErrorEntries => j = Len(trace)

(***************************************************************************)
(* C26 amended: in every reachable state of a run started at index 0 with  *)
(* an empty trace on a non-empty plan, each trace entry j is either        *)
(* plan[j] or plan[j] followed by "[ERROR]"; on an empty plan the trace    *)
(* has at most one entry, the default plan's first step with or without    *)
(* the marker; in both cases only the last entry can carry "[ERROR]".      *)
(***************************************************************************)
C26_TraceFollowsPlanOrDefault ==
    StartedAtZero =>
        /\ plan = <<>> => Len(trace) <= 1
        /\ \A j \in 1..Len(trace) :
              LET step == IF plan = <<>> THEN DEFAULT_FLOW[1] ELSE plan[j]
              IN  /\ plan # <<>> => j <= Len(plan)
                  /\ trace[j] \in {step, ErrorEntry(step)}
                  /\ trace[j] = step <=> invoked[j].outcome.kind = "return"
                  /\ trace[j] \in ErrorEntries => j = Len(trace)

\* a run of the preset full that failed at its fourth step
C26_Witness ==
    /\ StartedAtZero /\ RunEnded
    /\ plan = PRESET_WORKFLOWS["full"]
    /\ trace = <<"reconstruct", "persist", "email", "analyze[ERROR]">>

\* a run on an empty plan whose only step failed
C26_WitnessEmptyPlan ==
    /\ StartedAtZero /\ RunEnded
    /\ plan = <<>>
    /\ trace = <<ErrorEntry(DEFAULT_FLOW[1])>>

(***************************************************************************)
(* C27: when a handler raises, the delta applied to the state contains     *)
(* only error, execution_trace, skip_remaining and current_step_index:     *)
(* every domain payload key keeps the value it had before the failing      *)
(* step, so the failing step contributes no partial result.                *)
(***************************************************************************)
C27_RaiseLeavesPayload ==
    [][(invoked' # invoked /\ Raised(Last(invoked').outcome)) =>
          /\ DOMAIN call'.delta = EngineOwned
          /\ state' = ApplyDelta(state, call'.delta)
          /\ DOMAIN state' = DOMAIN state \cup EngineOwned
          /\ \A k \in DOMAIN state \ EngineOwned : state'[k] = state[k]
      ]_vars

\* persist raised after reconstruct had returned its transcript: the
\* transcript is kept, persistence_result is as the request left it
C27_Witness ==
    /\ caller = "run"
    /\ Len(invoked) = 2
    /\ invoked[1].outcome = Returns([transcript |-> "hello"])
    /\ invoked[2].name = "persist" /\ Raised(invoked[2].outcome)
    /\ state["transcript"] = "hello"
    /\ state["persistence_result"] = initial["persistence_result"]
    /\ state["final_status"] = initial["final_status"]
    /\ DOMAIN call.delta = EngineOwned

(***************************************************************************)
(* C28: a handler that returns something that is not a mapping is treated  *)
(* as a failed step: the wrapper's own attempt to add the trace to the     *)
(* result is caught, and the step yields the same error delta as a raising *)
(* handler ("<name>[ERROR]" entry, error set, skip_remaining true,         *)
(* index + 1) instead of propagating an exception; the run then ends.      *)
(***************************************************************************)
C28_NonMappingIsFailedStep ==
    [][(invoked' # invoked /\ Last(invoked').outcome.kind = "nonmap") =>
          /\ call'.delta =
                [error |-> "Errore in " \o cur \o ": " \o ItemAssignmentError,
                 execution_trace |-> Append(trace, cur \o "[ERROR]"),
                 skip_remaining |-> TRUE,
                 current_step_index |-> index + 1]
          /\ \E e \in node_func(cur, state) :
                Raised(e) /\ DOMAIN call'.delta = DOMAIN wrapped(cur, state, e)
          /\ state' = ApplyDelta(state, call'.delta)
          /\ TruthyStr(error')
          /\ pc' = "route" /\ response' = response
          /\ route_to_next_step(state') = END
      ]_vars

\* the second step of a run of the endpoint returned no mapping: the run
\* was answered, with the failure in the body
C28_Witness ==
    /\ caller = "run" /\ pc = "done"
    /\ Len(invoked) = 2 /\ Len(plan) > 2
    /\ invoked[2].outcome = NonMapping
    /\ Last(trace) = ErrorEntry(plan[2])
    /\ skip_remaining /\ index = 2
    /\ response.status = 200 /\ response.success = FALSE
    /\ response.error = ErrorMessage(plan[2], ItemAssignmentError)

(***************************************************************************)
(* C29: if the engine is started with a state whose steps list is present  *)
(* but empty, exactly one step runs: entry-point selection picks the       *)
(* default plan's first step (reconstruct), and post-step routing then     *)
(* terminates as plan exhausted, so none of the other default-plan steps   *)
(* executes.                                                               *)
(***************************************************************************)
C29_StartedEmpty ==
    /\ Started
    /\ "steps" \in DOMAIN initial
    /\ initial["steps"] = <<>>

C29_EmptyPlanRunsOneStep ==
    C29_StartedEmpty =>
        /\ plan = <<>>
        /\ Len(invoked) <= 1
        /\ pc = "start" => get_entry_point(state) = "reconstruct"
        /\ pc = "node" => cur = "reconstruct" /\ invoked = <<>>
        /\ pc \in {"route", "end", "done"} =>
              /\ Len(invoked) = 1
              /\ invoked[1].name = "reconstruct"
              /\ invoked[1].name = DEFAULT_FLOW[1]
              /\ index >= Len(plan)
              /\ route_to_next_step(state) = END
        /\ pc = "done" => RunEnded
        /\ RunEnded => trace \in {<<"reconstruct">>, <<"reconstruct[ERROR]">>}

\* the run on the empty plan ended after reconstruct had returned: neither
\* skip_remaining nor error ended it, the plan was exhausted
C29_Witness ==
    /\ C29_StartedEmpty /\ RunEnded
    /\ trace = <<"reconstruct">>
    /\ ~skip_remaining /\ ~TruthyStr(error)
    /\ index = Get(initial, "current_step_index", 0) + 1
    /\ Len(invoked) = 1

(***************************************************************************)
(* C30: if the engine is started with current_step_index = i where         *)
(* 0 < i < len(plan), on a plan of registered names, and no handler fails, *)
(* it invokes exactly plan[i], plan[i+1], ..., plan[len(plan)-1] in that   *)
(* order, skipping positions before i, and ends with                       *)
(* current_step_index = len(plan).                                         *)
(***************************************************************************)
StartIndex == Get(initial, "current_step_index", 0)

C30_StartedInside ==
    /\ Started /\ ValidPlan
    /\ 0 < StartIndex /\ StartIndex < Len(plan)

C30_ResumesAtIndex ==
    (C30_StartedInside /\ NoFailure) =>
        /\ Len(invoked) <= Len(plan) - StartIndex
        /\ \A k \in 1..Len(invoked) :
              /\ invoked[k].index = StartIndex + k - 1
              /\ invoked[k].name = plan[StartIndex + k]
        /\ index = StartIndex + Len(invoked)
        /\ pc = "node" => cur = plan[index + 1]
        /\ pc = "done" => RunEnded
        /\ RunEnded =>
              /\ Len(invoked) = Len(plan) - StartIndex
              /\ index = Len(plan)
              /\ trace = SubSeq(plan, StartIndex + 1, Len(plan))

\* the default plan entered at index 2 ran its last five steps
C30_Witness ==
    /\ C30_StartedInside /\ NoFailure /\ RunEnded
    /\ plan = DEFAULT_FLOW
    /\ StartIndex = 2
    /\ Names = <<"email", "analyze", "suggest", "save_analysis", "email">>
    /\ index = 7

====
